---- MODULE Spec2Model ----
(***************************************************************************)
(* Model of signaller.py: class Reference (weak or strong handle to a      *)
(* callable, equality and hash taken from the callable's __hash__) and     *)
(* class Signal (a Python set of References with connect, disconnect,      *)
(* clear and emit).                                                        *)
(*                                                                         *)
(* emit is a for-loop over the live set object, so it is modelled as an    *)
(* iterator (si_used, todo) that the other operations can disturb while an *)
(* inline slot body is running.  Destruction of a callable is an event of  *)
(* the runtime: it runs the weakref callbacks of every Reference object    *)
(* that still exists for the callable.                                     *)
(***************************************************************************)
EXTENDS Naturals, Sequences, FiniteSets, Bags, TLC

VARIABLES
    signals,      \* the Signal objects the program constructed
    force_async,  \* Signal.force_async of each Signal
    made,         \* the callables the program created
    held,         \* the References the program built itself, with no Signal, and holds
    slots,        \* Signal._slots of each Signal: a set of References
    live,         \* the callables that have not been destroyed
    linger,       \* callables watched by a weak Reference that left _slots and still has its weakref callback
    pc,           \* position of the emit call: "idle", "iter" (in the for loop), "inslot" (in an inline slot body)
    esig,         \* the Signal whose emit is running
    eargs,        \* the arguments of the running emit
    si_used,      \* size of the set recorded by the set iterator when the loop started
    todo,         \* entries of the set table the iterator has not reached yet
    cur,          \* the Reference whose body is running inline
    calls,        \* dispatches of the running emit, in order: [ref, route, args]
    mutated,      \* how many times _slots of the emitting Signal changed since the emit started
    pool,         \* calls submitted to the executor and not yet run (a bag)
    sched,        \* coroutines given to the event loop and not yet run (a bag)
    last          \* outcome of the last operation: [op, sig, arg, raised, warned, changed]

vars == <<signals, force_async, made, held, slots, live, linger, pc, esig, eargs, si_used,
          todo, cur, calls, mutated, pool, sched, last>>

\* what no method of Signal and no step of emit touches: the Signals and
\* callables the program built and the References it holds itself
config == <<signals, force_async, made, held>>

emitVars == <<pc, esig, eargs, si_used, todo, cur, calls, mutated>>

-----------------------------------------------------------------------------
(* The universe of values *)

Signals == {"s1", "s2"}

\* f and g are plain callables whose __hash__ values coincide (bound methods
\* of two instances that hash alike, say), co is a coroutine function.
Callables == {"f", "g", "co"}

\* a value that is not callable
NonCallables == {"n"}

None == "None"

ArgVals == {1, 2}

\* emit is called while fewer dispatches than this are pending in the executor
\* and the event loop
MaxPending == 1

\* the most changes of _slots the inline slot bodies of one emit make
MaxSlotOps == 1

\* the most References the program holds itself at a time
MaxHeld == 2

\* the callables one program run creates: two whose hashes coincide, or a
\* plain one and a coroutine function
Universes == {{"f", "g"}, {"f", "co"}}

callable(x) == x \in Callables

\* obj.__hash__()
Hash(x) == CASE x = "f" -> 1
             [] x = "g" -> 1
             [] x = "co" -> 2

iscoroutinefunction(x) == x = "co"

-----------------------------------------------------------------------------
(* class Reference *)

Reference(obj, weak, fa) == [obj |-> obj, weak |-> weak, force_async |-> fa]

References == [obj : Callables, weak : BOOLEAN, force_async : BOOLEAN]

RefHash(ref) == Hash(ref.obj)

RefEq(a, b) == RefHash(a) = RefHash(b)

\* (variant: the weakref callback leaves _alive as it is)
aliveNeverCleared(ref) == TRUE

\* _alive: set at construction, cleared by the weakref callback, which only a
\* weak Reference has and which runs when the callable is destroyed
alive(ref) == ~ref.weak \/ ref.obj \in live

getobject(ref) == IF ref.weak
                  THEN (IF ref.obj \in live THEN ref.obj ELSE None)
                  ELSE ref.obj

-----------------------------------------------------------------------------
(* The Python set behind Signal._slots *)

\* (variant: entries compared field by field instead of by __eq__)
SetAddByFields(S, ref) == S \cup {ref}

\* (variant: an equal entry is replaced by the new Reference)
SetAddReplace(S, ref) == {e \in S : ~RefEq(e, ref)} \cup {ref}

\* set.add: an entry equal to the new one is kept and the new one is not stored
SetAdd(S, ref) == IF \E e \in S : RefEq(e, ref) THEN S ELSE S \cup {ref}

SetHas(S, h) == \E e \in S : RefHash(e) = h

SetRemove(S, h) == {e \in S : RefHash(e) # h}

\* keys disconnect is called with: the raw callable, or a Reference built from
\* it (which the caller may still hold when the callable is gone)
Keys == [kind : {"raw", "ref"}, obj : Callables]

KeyHash(k) == Hash(k.obj)

-----------------------------------------------------------------------------
(* Reference objects that left _slots *)

\* another live callable has the same __hash__ value
Collides(o) == \E o2 \in live \ {o} : Hash(o2) = Hash(o)

\* A weak Reference and its weakref callback form a cycle, so a dropped one
\* survives until the cycle collector runs; a strong one is freed at once.
\* The callback of a dropped Reference removes the entry whose hash is its
\* own.  Where no other callable has that hash, this is the entry of its own
\* callable, which is weak and removed by its own callback as well (a strong
\* entry keeps the callable from dying), so the dropped Reference changes
\* nothing and is not tracked.
Dropped(R) == {r.obj : r \in {r \in R : r.weak /\ r.obj \in live /\ Collides(r.obj)}}

\* the dropped References kept: all of them while the collector has not run,
\* any part of them otherwise
Kept(old, new) == {old \cup D : D \in SUBSET Dropped(new)}

\* what an operation did: the Signal it was called on, the Reference it built
\* or the callable it was about,
\* the exception it raised ("none" when it returned), whether the call logged
\* the not-connected warning, whether it changed _slots, and what it returned
\* (None but for connect)
Outcome(op, s, arg, raised, warned, changed) ==
    [op |-> op, sig |-> s, arg |-> arg, raised |-> raised, warned |-> warned,
     changed |-> changed, ret |-> None]

\* the inner function of connect, as a value
Wrapper == "wrapper"

Returning(outcome, value) == [outcome EXCEPT !.ret = value]

NoRef == [obj |-> None, weak |-> FALSE, force_async |-> FALSE]

Running(s) == pc # "idle" /\ esig = s

-----------------------------------------------------------------------------
Init ==
    /\ signals = {"s1"}
    /\ force_async \in [Signals -> BOOLEAN]
    /\ \A s \in Signals \ signals : force_async[s] = FALSE
    /\ slots = [s \in Signals |-> {}]
    /\ made \in Universes
    /\ held = {}
    /\ live = made
    /\ linger = [s \in Signals |-> {}]
    /\ pc = "idle"
    /\ esig = None
    /\ eargs = 0
    /\ si_used = 0
    /\ todo = {}
    /\ cur = NoRef
    /\ calls = <<>>
    /\ mutated = 0
    /\ pool = EmptyBag
    /\ sched = EmptyBag
    /\ last = Outcome("init", None, NoRef, "none", FALSE, FALSE)

-----------------------------------------------------------------------------
(* Signal.connect, Signal.disconnect, Signal.clear *)

\* The caller is the program at top level or the body of the inline slot.
CallerRuns == pc = "idle" \/ (pc = "inslot" /\ mutated < MaxSlotOps)

\* What the set iterator of a running emit still has ahead of it after an
\* insertion: the new entry lands before or after the cursor, and an insertion
\* that resizes the table reorders every entry.
TodoAfterAdd(s, S) == IF Running(s) /\ S # slots[s] THEN SUBSET S ELSE {todo}

\* ... and after a removal: the entry's table cell is emptied.
TodoAfterRemove(s, S) == IF Running(s) THEN todo \cap S ELSE todo

Mutated(s, S) == IF Running(s) /\ S # slots[s] THEN mutated + 1 ELSE mutated

\* wrapper(func) of connect: build the Reference, add it to the set.
ConnectWrapper(s, func, weak, fa) ==
    IF ~callable(func)
    THEN /\ last' = Outcome("connect", s, NoRef, "TypeError", FALSE, FALSE)
         /\ UNCHANGED <<slots, linger, todo, mutated>>
    ELSE LET ref == Reference(func, weak, fa)
             S == SetAdd(slots[s], ref)
         IN /\ slots' = [slots EXCEPT ![s] = S]
            /\ \E L \in Kept(linger[s], IF S # slots[s] THEN {} ELSE {ref}) :
                   linger' = [linger EXCEPT ![s] = L]
            /\ todo' \in TodoAfterAdd(s, S)
            /\ mutated' = Mutated(s, S)
            /\ last' = Returning(Outcome("connect", s, ref, "none", FALSE, S # slots[s]),
                                 func)

\* connect(x, weak=.., force_async=..) with x its one positional argument
\* ("direct"), or connect(weak=.., force_async=..)(x) ("config").
\* (variant: connect never calls the wrapper itself)
CallsWrapperNever(form, x) == FALSE

\* connect calls wrapper with its one positional argument when that is
\* callable; otherwise it returns wrapper
CallsWrapper(form, x) == form = "direct" /\ callable(x)

Connect(s, x, weak, fa, form) ==
    /\ CallerRuns
    /\ x \in live \cup NonCallables
    /\ IF form = "direct" /\ ~CallsWrapper(form, x)
       THEN \* connect returns the wrapper, which is never called
            /\ last' = Returning(Outcome("connector", s, NoRef, "none", FALSE, FALSE),
                                 Wrapper)
            /\ UNCHANGED <<slots, linger, todo, mutated>>
       ELSE ConnectWrapper(s, x, weak, fa)
    /\ UNCHANGED <<config, live, pc, esig, eargs, si_used, cur,
                   calls, pool, sched>>

Disconnect(s, k) ==
    /\ CallerRuns
    /\ k.obj \in made
    /\ k.kind = "raw" => k.obj \in live
    /\ LET S == SetRemove(slots[s], KeyHash(k))
       IN /\ slots' = [slots EXCEPT ![s] = S]
          /\ \E L \in Kept(linger[s], slots[s] \ S) :
                 linger' = [linger EXCEPT ![s] = L]
          /\ todo' = TodoAfterRemove(s, S)
          /\ mutated' = Mutated(s, S)
          /\ last' = Outcome("disconnect", s, Reference(k.obj, FALSE, FALSE), "none",
                             ~SetHas(slots[s], KeyHash(k)), S # slots[s])
    /\ UNCHANGED <<config, live, pc, esig, eargs, si_used, cur,
                   calls, pool, sched>>

\* (variant: clear lets go of the weak References only)
ClearedKeepsStrong(S) == {e \in S : ~e.weak}

\* set.clear: what is left of the set
Cleared(S) == {}

Clear(s) ==
    /\ CallerRuns
    /\ slots' = [slots EXCEPT ![s] = Cleared(slots[s])]
    /\ \E L \in Kept(linger[s], slots[s] \ Cleared(slots[s])) :
           linger' = [linger EXCEPT ![s] = L]
    /\ todo' = TodoAfterRemove(s, Cleared(slots[s]))
    /\ mutated' = Mutated(s, Cleared(slots[s]))
    /\ last' = Outcome("clear", s, NoRef, "none", FALSE, slots[s] # {})
    /\ UNCHANGED <<config, live, pc, esig, eargs, si_used, cur,
                   calls, pool, sched>>

-----------------------------------------------------------------------------
(* Destruction of a callable, and the cycle collector *)

\* a pending call: the Signal whose emit made it and the Reference it holds,
\* of which the executor reads _weak and _ref
Task(s, ref) == [sig |-> s, obj |-> ref.obj, weak |-> ref.weak]

\* the Reference objects of Signal s that exist for callable o and carry a
\* weakref callback: entries of _slots, dropped ones not yet collected, and
\* ones a pending executor call holds
Watchers(s, o) ==
    {r \in slots[s] : r.obj = o /\ r.weak}
    \cup {Reference(o, TRUE, fa) : fa \in {fa \in BOOLEAN : o \in linger[s]}}
    \cup {Reference(o, TRUE, fa) : fa \in {fa \in BOOLEAN :
               \E t \in BagToSet(pool) : t.sig = s /\ t.obj = o /\ t.weak}}

\* who keeps callable o from being destroyed: strong References in a set or
\* in a pending executor call, and the call that is running it
Held(o) ==
    \/ \E s \in Signals : \E e \in slots[s] : e.obj = o /\ ~e.weak
    \/ \E r \in held : r.obj = o /\ ~r.weak
    \/ \E t \in BagToSet(pool) : t.obj = o /\ ~t.weak
    \/ pc = "inslot" /\ cur.obj = o

\* (variant: the Reference is built without callback=self.disconnect)
DeathCallbackNone(s, o) == slots[s]

\* _wrap_callback.wrapper of every watcher: _alive = False, then
\* callback(self), which is Signal.disconnect
DeathCallback(s, o) == IF Watchers(s, o) # {} THEN SetRemove(slots[s], Hash(o)) ELSE slots[s]

Die(o) ==
    /\ o \in live
    /\ ~Held(o)
    /\ live' = live \ {o}
    /\ slots' = [s \in Signals |-> DeathCallback(s, o)]
    /\ linger' = [s \in Signals |-> linger[s] \ {o}]
    /\ todo' = IF pc # "idle" THEN todo \cap slots'[esig] ELSE todo
    /\ mutated' = IF pc # "idle" /\ slots'[esig] # slots[esig] THEN mutated + 1 ELSE mutated
    /\ last' = Outcome("die", None, Reference(o, TRUE, FALSE), "none", FALSE, slots' # slots)
    /\ UNCHANGED <<config, pc, esig, eargs, si_used, cur, calls,
                   pool, sched>>

CollectGarbage(s, o) ==
    /\ o \in linger[s]
    /\ linger' = [linger EXCEPT ![s] = linger[s] \ {o}]
    /\ UNCHANGED <<config, slots, live, emitVars, pool, sched, last>>

-----------------------------------------------------------------------------
(* Signal.emit *)

\* (variant: force_async is tested before the coroutine test)
RouteForceFirst(sfa, ref) ==
    IF sfa \/ ref.force_async THEN "offloaded"
    ELSE IF iscoroutinefunction(getobject(ref)) THEN "scheduled"
    ELSE "inline"

\* the branch emit takes for one Reference
Route(sfa, ref) ==
    IF iscoroutinefunction(getobject(ref)) THEN "scheduled"
    ELSE IF sfa \/ ref.force_async THEN "offloaded"
    ELSE "inline"

Call(ref, route, args) == [ref |-> ref, route |-> route, args |-> args]

\* (variant: the loop passes over the strong References)
SetIterWeakOnly(S) == {e \in S : e.weak}

\* what the set iterator yields from: the entries of the set
SetIter(S) == S

\* the arguments emit hands to a slot
SlotArgs(args) == args

\* (variant: emit waits for the futures of what it submitted and scheduled)
EmitWaitsForPending == pool # EmptyBag \/ sched # EmptyBag

\* emit holds no future and no task: nothing submitted or scheduled delays it
EmitWaits == FALSE

\* (variant: the loop catches what the slot raised and goes on)
AfterRaiseContinue == "iter"

\* where the emit call is after an inline slot raised: out of the call
AfterRaise == "idle"

EmitReset ==
    /\ esig' = None
    /\ eargs' = 0
    /\ si_used' = 0
    /\ todo' = {}
    /\ cur' = NoRef
    /\ calls' = <<>>
    /\ mutated' = 0

\* emit(a) up to the creation of the set iterator
EmitStart(s, a) ==
    /\ pc = "idle"
    /\ BagCardinality(pool) + BagCardinality(sched) < MaxPending
    /\ pc' = "iter"
    /\ esig' = s
    /\ eargs' = a
    /\ si_used' = Cardinality(slots[s])
    /\ todo' = SetIter(slots[s])
    /\ cur' = NoRef
    /\ calls' = <<>>
    /\ mutated' = 0
    /\ last' = Outcome("emit", s, NoRef, "none", FALSE, FALSE)
    /\ UNCHANGED <<config, slots, live, linger, pool, sched>>

\* next() of the set iterator finds the set's size changed: RuntimeError
EmitChanged ==
    /\ pc = "iter"
    /\ ~EmitWaits
    /\ si_used # Cardinality(slots[esig])
    /\ pc' = "idle"
    /\ EmitReset
    /\ last' = Outcome("emit", esig, NoRef, "RuntimeError", FALSE, FALSE)
    /\ UNCHANGED <<config, slots, live, linger, pool, sched>>

\* next() of the set iterator is exhausted: emit returns
EmitReturn ==
    /\ pc = "iter"
    /\ ~EmitWaits
    /\ si_used = Cardinality(slots[esig])
    /\ todo = {}
    /\ pc' = "idle"
    /\ EmitReset
    /\ last' = Outcome("emit", esig, NoRef, "none", FALSE, FALSE)
    /\ UNCHANGED <<config, slots, live, linger, pool, sched>>

\* (variant: a Reference is taken out of the set once it is dispatched)
SlotsAfterDispatchOnce(S, ref) == S \ {ref}

\* the loop body reads ref and self._slots and writes neither
SlotsAfterDispatch(S, ref) == S

\* one turn of the for loop, up to the call of an inline slot
EmitDispatch(ref) ==
    /\ pc = "iter"
    /\ ~EmitWaits
    /\ si_used = Cardinality(slots[esig])
    /\ ref \in todo
    /\ LET route == Route(force_async[esig], ref)
           task == Task(esig, ref)
       IN IF route = "inline" /\ getobject(ref) = None
          THEN \* None(*args): TypeError out of emit
               /\ pc' = "idle"
               /\ EmitReset
               /\ last' = Outcome("emit", esig, NoRef, "TypeError", FALSE, FALSE)
               /\ UNCHANGED <<slots, pool, sched>>
          ELSE /\ slots' = [slots EXCEPT ![esig] = SlotsAfterDispatch(slots[esig], ref)]
               /\ todo' = todo \ {ref}
               /\ calls' = Append(calls, Call(ref, route, SlotArgs(eargs)))
               /\ pc' = IF route = "inline" THEN "inslot" ELSE "iter"
               /\ cur' = IF route = "inline" THEN ref ELSE NoRef
               /\ sched' = IF route = "scheduled" THEN sched (+) SetToBag({task}) ELSE sched
               /\ pool' = IF route = "offloaded" THEN pool (+) SetToBag({task}) ELSE pool
               /\ UNCHANGED <<esig, eargs, si_used, mutated, last>>
    /\ UNCHANGED <<config, live, linger>>

\* the inline slot body returns
SlotReturn ==
    /\ pc = "inslot"
    /\ pc' = "iter"
    /\ cur' = NoRef
    /\ UNCHANGED <<config, slots, live, linger, esig, eargs, si_used,
                   todo, calls, mutated, pool, sched, last>>

\* the inline slot body raises: nothing in emit catches it
SlotRaise ==
    /\ pc = "inslot"
    /\ pc' = AfterRaise
    /\ IF AfterRaise = "idle"
       THEN EmitReset
       ELSE cur' = NoRef /\ UNCHANGED <<esig, eargs, si_used, todo, calls, mutated>>
    /\ last' = Outcome("emit", esig, NoRef, "SlotError", FALSE, FALSE)
    /\ UNCHANGED <<config, slots, live, linger, pool, sched>>

-----------------------------------------------------------------------------
(* The executor and the event loop *)

\* the value the body of callable o returns when called with args
Body(o, args) == [body |-> o, args |-> args]

\* (variant: the call reaches the callable whether or not it was destroyed)
RefCallDangling(ref, args) == [raised |-> "none", ret |-> Body(ref.obj, args)]

\* Reference.__call__: getobject()(*args); calling None raises TypeError
RefCall(ref, args) ==
    IF getobject(ref) = None
    THEN [raised |-> "TypeError", ret |-> None]
    ELSE [raised |-> "none", ret |-> Body(getobject(ref), args)]

\* (variant: emit takes the result of the future it was given, and with
\* it what the worker's call raised)
WorkerOutcomeInEmit(t, raised) == Outcome("emit", t.sig, NoRef, raised, FALSE, FALSE)

\* what the worker's call raised is kept in the future, which emit dropped
WorkerOutcome(t, raised) ==
    Outcome("worker", t.sig, Reference(t.obj, t.weak, FALSE), raised, FALSE, FALSE)

\* a worker thread runs a submitted call: ref(*args) with the arguments of
\* the emit that submitted it
PoolRun(t) ==
    /\ BagIn(t, pool)
    /\ pool' = pool (-) SetToBag({t})
    /\ \E a \in ArgVals :
          last' = WorkerOutcome(t, RefCall(Reference(t.obj, t.weak, FALSE), a).raised)
    /\ UNCHANGED <<config, slots, live, linger, emitVars, sched>>

\* the event loop runs a scheduled coroutine
SchedRun(t) ==
    /\ BagIn(t, sched)
    /\ sched' = sched (-) SetToBag({t})
    /\ UNCHANGED <<config, slots, live, linger, emitVars, pool, last>>

-----------------------------------------------------------------------------
Tasks == [sig : Signals, obj : Callables, weak : BOOLEAN]

Next ==
    \/ \E s \in signals, x \in Callables \cup NonCallables, weak \in BOOLEAN,
          fa \in BOOLEAN, form \in {"direct", "config"} : Connect(s, x, weak, fa, form)
    \/ \E s \in signals, k \in Keys : Disconnect(s, k)
    \/ \E s \in signals : Clear(s)
    \/ \E o \in Callables : Die(o)
    \/ \E s \in signals, o \in Callables : CollectGarbage(s, o)
    \/ \E s \in signals, a \in ArgVals : EmitStart(s, a)
    \/ EmitChanged
    \/ EmitReturn
    \/ \E ref \in References : EmitDispatch(ref)
    \/ SlotReturn
    \/ SlotRaise
    \/ \E t \in Tasks : PoolRun(t)
    \/ \E t \in Tasks : SchedRun(t)

Spec == Init /\ [][Next]_vars

\* one step of the for loop of emit
EmitStep == EmitChanged \/ EmitReturn \/ \E ref \in References : EmitDispatch(ref)

\* the end of an inline slot body
SlotEnd == SlotReturn \/ SlotRaise

\* The thread that called emit keeps running: the loop takes its next step and
\* an inline slot body comes to its end.  Nothing is assumed of the executor's
\* workers or of the event loop.
FairSpec == Spec /\ WF_vars(EmitStep) /\ WF_vars(SlotEnd)

-----------------------------------------------------------------------------
(* A program with two Signals, which connects, disconnects and clears and
   does not emit *)

TwoInit ==
    /\ signals = Signals
    /\ force_async = [s \in Signals |-> FALSE]
    /\ slots = [s \in Signals |-> {}]
    /\ made \in Universes
    /\ held = {}
    /\ live = made
    /\ linger = [s \in Signals |-> {}]
    /\ pc = "idle"
    /\ esig = None
    /\ eargs = 0
    /\ si_used = 0
    /\ todo = {}
    /\ cur = NoRef
    /\ calls = <<>>
    /\ mutated = 0
    /\ pool = EmptyBag
    /\ sched = EmptyBag
    /\ last = Outcome("init", None, NoRef, "none", FALSE, FALSE)

TwoNext ==
    \/ \E s \in signals, x \in Callables \cup NonCallables, weak \in BOOLEAN,
          fa \in BOOLEAN, form \in {"direct", "config"} : Connect(s, x, weak, fa, form)
    \/ \E s \in signals, k \in Keys : Disconnect(s, k)
    \/ \E s \in signals : Clear(s)
    \/ \E o \in Callables : Die(o)
    \/ \E s \in signals, o \in Callables : CollectGarbage(s, o)

TwoSpec == TwoInit /\ [][TwoNext]_vars

-----------------------------------------------------------------------------
(* A program that uses class Reference by itself *)

\* Reference(x, weak=.., force_async=..), with no callback
NewReference(x, weak, fa) ==
    /\ x \in live \cup NonCallables
    /\ Cardinality(held) < MaxHeld
    /\ IF ~callable(x)
       THEN /\ last' = Outcome("Reference", None, NoRef, "TypeError", FALSE, FALSE)
            /\ UNCHANGED held
       ELSE /\ held' = held \cup {Reference(x, weak, fa)}
            /\ last' = Outcome("Reference", None, Reference(x, weak, fa), "none",
                               FALSE, FALSE)
    /\ UNCHANGED <<signals, force_async, made, slots, live, linger, emitVars, pool, sched>>

\* the program lets go of a Reference
DropReference(r) ==
    /\ r \in held
    /\ held' = held \ {r}
    /\ UNCHANGED <<signals, force_async, made, slots, live, linger, emitVars,
                   pool, sched, last>>

\* r.getobject()
GetObject(r) ==
    /\ r \in held
    /\ last' = Returning(Outcome("getobject", None, r, "none", FALSE, FALSE), getobject(r))
    /\ UNCHANGED <<config, slots, live, linger, emitVars, pool, sched>>

\* r(a)
CallReference(r, a) ==
    /\ r \in held
    /\ last' = Returning(Outcome("call", None, r, RefCall(r, a).raised, FALSE, FALSE),
                         RefCall(r, a).ret)
    /\ UNCHANGED <<config, slots, live, linger, emitVars, pool, sched>>

RefNext ==
    \/ \E x \in Callables \cup NonCallables, weak \in BOOLEAN, fa \in BOOLEAN :
          NewReference(x, weak, fa)
    \/ \E r \in References : DropReference(r)
    \/ \E r \in References : GetObject(r)
    \/ \E r \in References, a \in ArgVals : CallReference(r, a)
    \/ \E o \in Callables : Die(o)

RefSpec == Init /\ [][RefNext]_vars

-----------------------------------------------------------------------------
(* Properties *)

CallsOf(ref) == {i \in 1..Len(calls) : calls[i].ref = ref}

\* C1: in an emit during which no slot raised and _slots was not changed,
\* the References dispatched so far and the ones the loop has yet to reach are
\* exactly the entries of _slots, each dispatched at most once and with the
\* arguments of the emit; when the loop is exhausted every entry has been
\* dispatched exactly once and nothing else has.
C1_EmitDispatchesEachOnce ==
    (pc # "idle" /\ mutated = 0) =>
        /\ \A i \in 1..Len(calls) : calls[i].ref \in slots[esig] /\ calls[i].args = eargs
        /\ \A e \in slots[esig] : Cardinality(CallsOf(e)) = IF e \in todo THEN 0 ELSE 1
        /\ todo \subseteq slots[esig]

C1_Witness ==
    /\ pc = "iter" /\ mutated = 0 /\ todo = {}
    /\ Cardinality(slots[esig]) = 2 /\ Len(calls) = 2
    /\ eargs = 2

\* C2: every dispatch takes the route the priority gives: a coroutine function
\* is scheduled on the event loop whatever the force_async flags say; any other
\* callable goes to the executor, and is not called inline, when the Signal's
\* or the Reference's force_async is set; anything else is called inline.
C2_RoutePriority ==
    [][(pc = "iter" /\ Len(calls') = Len(calls) + 1) =>
        LET c == calls'[Len(calls')]
            task == SetToBag({Task(esig, c.ref)})
        IN IF iscoroutinefunction(c.ref.obj)
           THEN c.route = "scheduled" /\ sched' = sched (+) task /\ pool' = pool
                /\ pc' = "iter"
           ELSE IF force_async[esig] \/ c.ref.force_async
           THEN c.route = "offloaded" /\ pool' = pool (+) task /\ sched' = sched
                /\ pc' = "iter"
           ELSE c.route = "inline" /\ pc' = "inslot" /\ cur' = c.ref
                /\ pool' = pool /\ sched' = sched]_vars

C2_Witness ==
    /\ pc = "iter"
    /\ \E i \in 1..Len(calls) :
          calls[i].route = "scheduled" /\ calls[i].ref.force_async /\ force_async[esig]
    /\ BagCardinality(sched) = 1

\* C3 (as claimed): emit never raises because _slots was changed while it ran.
C3_EmitToleratesMutation == ~(last.op = "emit" /\ last.raised = "RuntimeError")

\* C4: once the death callback of a destroyed callable has run, no _slots
\* holds an entry for it, with no emit needed, and no emit has it left to
\* dispatch or runs it inline.
C4_DeadSlotRemoved ==
    /\ \A s \in Signals : \A e \in slots[s] : e.obj \in live
    /\ \A e \in todo : e.obj \in live
    /\ pc = "inslot" => cur.obj \in live

C4_Witness ==
    /\ pc = "idle"
    /\ last.op = "die" /\ last.changed
    /\ last.arg.obj \notin live

\* C5: _slots never holds two References to one callable; a connect of a
\* callable that has an entry leaves the number of entries as it was; an emit
\* during which _slots is not changed dispatches no callable twice.
C5_OneEntryPerCallable ==
    /\ [](\A s \in Signals : \A e1, e2 \in slots[s] : e1.obj = e2.obj => e1 = e2)
    /\ [](mutated = 0 => \A i, j \in 1..Len(calls) :
                            calls[i].ref.obj = calls[j].ref.obj => i = j)
    /\ [][(last'.op = "connect" /\ last'.raised = "none"
               /\ \E e \in slots[last'.sig] : e.obj = last'.arg.obj)
            => Cardinality(slots'[last'.sig]) = Cardinality(slots[last'.sig])]_vars

C5_Witness ==
    /\ last.op = "connect" /\ last.raised = "none" /\ ~last.changed
    /\ \E e \in slots["s1"] : e = last.arg
    /\ Cardinality(slots["s1"]) = 2

\* C6: a connect of a callable that has an entry, with other weak or
\* force_async options, changes no _slots: the entry keeps the flags of the
\* first connect.
C6_ReconnectKeepsFlags ==
    [][(last'.op = "connect" /\ last'.raised = "none"
          /\ \E e \in slots[last'.sig] :
                e.obj = last'.arg.obj
                /\ (e.weak # last'.arg.weak \/ e.force_async # last'.arg.force_async))
        => slots' = slots]_vars

C6_Witness ==
    /\ last.op = "connect" /\ last.raised = "none" /\ ~last.changed
    /\ \E e \in slots["s1"] :
          e.obj = last.arg.obj /\ e.weak # last.arg.weak /\ e.force_async # last.arg.force_async

\* C7 (as claimed): disconnect(x) removes the entry of callable x and no other.
C7_DisconnectRemovesOwnEntry ==
    [][\A s \in signals, k \in Keys :
         Disconnect(s, k) => slots'[s] = {e \in slots[s] : e.obj # k.obj}]_vars

\* C8 (as claimed): disconnect of a callable that has no entry logs the
\* not-connected warning, raises nothing and leaves _slots as it was.
C8_DisconnectAbsentIsNoop ==
    [][\A s \in signals, k \in Keys :
         (Disconnect(s, k) /\ ~\E e \in slots[s] : e.obj = k.obj)
             => slots' = slots /\ last'.warned /\ last'.raised = "none"]_vars

\* C9: when an inline slot raises, emit is left with that exception, what was
\* submitted and scheduled before stays so, _slots is as it was, and nothing is
\* dispatched until another emit is called.
C9_SlotErrorAbortsEmit ==
    /\ [](last.raised = "SlotError" => pc = "idle" /\ todo = {})
    /\ [][(pc = "inslot" /\ last'.raised = "SlotError")
            => slots' = slots /\ pool' = pool /\ sched' = sched]_vars
    /\ [][(pc = "idle" /\ pc' = "idle") =>
            \A t \in Tasks : CopiesIn(t, pool') <= CopiesIn(t, pool)
                              /\ CopiesIn(t, sched') <= CopiesIn(t, sched)]_vars

C9_Witness ==
    /\ last.raised = "SlotError" /\ pc = "idle"
    /\ Cardinality(slots["s1"]) = 2
    /\ BagCardinality(sched) = 1

\* C10: the for loop of emit can always take its next step, whatever is
\* pending in the executor and the event loop, and an emit whose inline slots
\* come to an end comes to an end, with no step of a worker or of the event
\* loop needed.
C10_EmitNeverWaits ==
    /\ [](pc = "iter" => ENABLED EmitStep)
    /\ (pc # "idle") ~> (pc = "idle")

C10_Witness ==
    /\ pc = "idle" /\ last.op = "emit" /\ last.raised = "none"
    /\ BagCardinality(pool) = 1 /\ BagCardinality(sched) = 1

\* C11 (as claimed): an entry connected with weak=False is alive, its callable
\* is not destroyed while the entry is in _slots, and the entry leaves _slots
\* only in a step of disconnect or clear on its Signal.
C11_StrongSlotStays ==
    /\ [](\A s \in Signals : \A e \in slots[s] : ~e.weak => alive(e) /\ e.obj \in live)
    /\ [][\A s \in Signals : \A e \in slots[s] :
            (~e.weak /\ e \notin slots'[s])
                => last'.sig = s /\ last'.op \in {"disconnect", "clear"}]_vars

C13_NonCallableRejected ==
    [][\A s \in signals, x \in NonCallables, weak \in BOOLEAN, fa \in BOOLEAN,
          form \in {"direct", "config"} :
         Connect(s, x, weak, fa, form)
             => last'.raised = "TypeError" /\ slots' = slots]_vars

C15_ConnectFormsAgree ==
    /\ \A s \in signals, f \in live, w \in BOOLEAN, a \in BOOLEAN :
          /\ ~ENABLED (Connect(s, f, w, a, "direct") /\ ~Connect(s, f, w, a, "config"))
          /\ ~ENABLED (Connect(s, f, w, a, "config") /\ ~Connect(s, f, w, a, "direct"))
    /\ (last.op = "connect" /\ last.raised = "none")
          => last.ret = last.arg.obj /\ last.ret \in Callables
    /\ last.op = "connector" => last.arg = NoRef

C15_Witness ==
    /\ last.op = "connect" /\ last.changed
    /\ last.ret = "g" /\ last.arg = Reference("g", FALSE, TRUE)
    /\ slots["s1"] = {Reference("g", FALSE, TRUE)}

\* C16: getobject of a weak Reference whose callable was destroyed returns
\* None, and a call of such a Reference raises (TypeError) and returns nothing
\* of any body; getobject of any other Reference returns its callable, and a
\* call of it raises nothing and returns what the body of that callable returns
\* for the arguments of the call.
C16_CallOfReference ==
    /\ [][\A r \in References :
            GetObject(r) =>
                last'.ret = IF r.weak /\ r.obj \notin live THEN None ELSE r.obj]_vars
    /\ [][\A r \in References, a \in ArgVals :
            CallReference(r, a) =>
                IF r.weak /\ r.obj \notin live
                THEN last'.raised = "TypeError" /\ last'.ret = None
                ELSE last'.raised = "none" /\ last'.ret = Body(r.obj, a)]_vars

C16_Witness ==
    /\ last.op = "call" /\ last.raised = "TypeError"
    /\ last.arg.weak /\ last.arg.obj \notin live
    /\ \E r \in held : ~r.weak

\* C17 (as claimed): two References are equal exactly when they wrap one
\* callable: after a connect that built a Reference, _slots holds an entry for
\* the callable connected, and an entry leaves _slots only by clear or by the
\* disconnect or the destruction of its own callable.
C17_EqualityIsIdentity ==
    /\ [][(last'.op = "connect" /\ last'.raised = "none")
            => \E e \in slots'[last'.sig] : e.obj = last'.arg.obj]_vars
    /\ [][\A s \in Signals : \A e \in slots[s] :
            e \notin slots'[s] =>
                \/ last'.op = "clear"
                \/ last'.op \in {"disconnect", "die"} /\ last'.arg.obj = e.obj]_vars

\* C18: no step of emit (the start of the loop, a turn of the loop, the end
\* of an inline slot body by return or by exception, the end of the loop)
\* changes any _slots; an emit that starts on an empty _slots dispatches
\* nothing, submits and schedules nothing, and returns with no exception.
C18_EmitLeavesSlots ==
    /\ [][(EmitStep \/ SlotEnd \/ (pc = "idle" /\ pc' = "iter")) => slots' = slots]_vars
    /\ [][(pc = "iter" /\ si_used = 0) =>
            /\ calls' = <<>>
            /\ \A t \in Tasks : CopiesIn(t, pool') <= CopiesIn(t, pool)
                                 /\ CopiesIn(t, sched') <= CopiesIn(t, sched)
            /\ pc' \in {"iter", "idle"}
            /\ pc' = "idle" => last'.op = "emit" /\ last'.raised = "none"]_vars

C18_Witness ==
    /\ pc = "idle" /\ last.op = "emit" /\ last.raised = "SlotError"
    /\ \E e \in slots[last.sig] : ~e.weak /\ ~e.force_async
    /\ \E e \in slots[last.sig] : e.weak /\ e.obj \in live
    /\ pool = EmptyBag

\* C19 (as claimed): the destruction of a callable that has a weak entry in
\* some _slots takes the entries of that callable out of the _slots of every
\* Signal and leaves every other entry of every Signal as it was.
C19_DeathRemovesOwnEntries ==
    [][\A o \in Callables :
         (last'.op = "die" /\ last'.arg.obj = o /\ o \in live
             /\ \E s \in Signals : \E e \in slots[s] : e.obj = o /\ e.weak)
             => \A s \in Signals : slots'[s] = {e \in slots[s] : e.obj # o}]_vars

\* C20: a worker's call of a weak Reference whose callable was destroyed
\* after the submission raises (TypeError) in the worker; a worker's call
\* reaches a body only of a callable that exists then; the step of the worker
\* changes nothing of a running emit and no _slots; and no emit ends with the
\* TypeError of a dangling call.
C20_DanglingCallStaysInWorker ==
    /\ [][\A t \in Tasks :
            (BagIn(t, pool) /\ pool' = pool (-) SetToBag({t})) =>
                /\ last'.op = "worker"
                /\ (t.weak /\ t.obj \notin live) => last'.raised = "TypeError"
                /\ last'.raised = "none" => t.obj \in live
                /\ UNCHANGED <<slots, emitVars, sched, live>>]_vars
    /\ [](~(last.op = "emit" /\ last.raised = "TypeError"))

C20_Witness ==
    /\ last.op = "worker" /\ last.raised = "TypeError"
    /\ last.arg.weak /\ last.arg.obj \notin live
    /\ pool = EmptyBag
    /\ pc = "idle"

====
